---- MODULE Spec2Model ----
(***************************************************************************)
(* Recording-session audio pipeline and summarisation workflow of the      *)
(* meeting-productivity server: the HTTP meeting routes, MeetingService,   *)
(* the speech-to-text / summarisation wrappers and the per-connection      *)
(* WebSocket handler, in its chunked revision (server/routes.ts) and its   *)
(* full-conversation revision.                                             *)
(*                                                                         *)
(* Text is a tuple of one-character strings, time is in milliseconds,      *)
(* audio is represented by its byte length.  An async handler is split at  *)
(* the calls that leave the process (speech-to-text, summarisation); the   *)
(* code between two such calls is one step.                                *)
(***************************************************************************)
EXTENDS Integers, Sequences, FiniteSets, TLC

VARIABLES
    mode,              \* which revision of the WebSocket handler is deployed
    now,               \* Date.now()
    meetings,          \* table meetings: row i has id i
    transcript,        \* table transcript_segments, per meeting id, by timestamp
    summaries,         \* table meeting_summaries, per meeting id
    actionItems,       \* table action_items
    summaryTimers,     \* pending setTimeout(generateMeetingSummary) per meeting id
    summaryTasks,      \* generateMeetingSummary calls of timers awaiting the gateway
    currentMeetingId,  \* per connection: let currentMeetingId
    audioChunks,       \* per connection: let audioChunks
    lastProcessTime,   \* per connection: let lastProcessTime
    inflight,          \* per connection: message handlers suspended in an await
    sent,              \* per connection: ws.send calls, in order
    epoch,             \* per connection: number of sessions restarted (see WsStartMeeting)
    ended,             \* per connection: the meeting id the previous message, a
                       \* stop-meeting, ended the session of; NoMeeting otherwise
    clients,           \* the connections that are open
    inputs,            \* number of requests, messages and clock advances so far
    budget,            \* number of requests, messages and clock advances of a run
    tooSmall,          \* number of "Audio buffer too small for transcription" logs
    sttLog,            \* requests issued to the Speech-to-Text Gateway
    sumCalls,          \* number of requests issued to the Summarization Gateway
    chatMessages,      \* table chat_messages
    http,              \* the HTTP exchange of the last step, NoHttp if it had none
    \* one instance of the browser's useWebSocket hook
    lifecycle,         \* of the component: "new", "mounted", "unmounted"
    sockets,           \* readyState of every WebSocket the hook created
    wsCurrent,         \* ws.current: an index of sockets, 0 for null
    connectionStatus,  \* "Disconnected", "Connecting", "Connected"
    reconnectCount,    \* reconnectCount.current
    reconnectTimers,   \* ids of the pending setTimeout(connect) callbacks
    reconnectTimeoutId,\* reconnectTimeoutId.current: a timer id, 0 for null
    timersSet,         \* number of setTimeout calls so far: the last timer id
    attempts,          \* connect() calls of timers since a socket last opened
    \* one instance of the browser's recording page (pages/recording.tsx)
    pageMeetingId,     \* currentMeetingId and currentMeetingIdRef.current, 0 for null
    pageRecording,     \* isRecording of the page
    isPaused,          \* isPaused
    recorder,          \* state of the MediaRecorder of useAudioRecording
    mutation,          \* the pending mutation and the place of its request in outbox
    outbox,            \* HTTP requests and WebSocket messages the browser sent, in order
    seen               \* per connection: messages of sent the page has handled

hookVars == <<lifecycle, sockets, wsCurrent, connectionStatus, reconnectCount,
              reconnectTimers, reconnectTimeoutId, timersSet, attempts>>

pageVars == <<pageMeetingId, pageRecording, isPaused, recorder, mutation, outbox, seen>>

vars == <<mode, now, meetings, transcript, summaries, actionItems,
          summaryTimers, summaryTasks, currentMeetingId, audioChunks,
          lastProcessTime, inflight, sent, epoch, ended, clients, inputs,
          budget, tooSmall, sttLog, sumCalls, chatMessages, http, hookVars, pageVars>>

----------------------------------------------------------------------------
(* Bounds *)

MaxInputs == 4          \* requests, messages and clock advances in a run
MaxApiInputs == 5       \* the same, in a run of the HTTP routes alone
MaxChatMeetings == 7    \* meetings in the table when a chat request arrives
MaxChats == 1           \* chat requests in a run
MaxSessionInputs == 6   \* the same, in a run of one connection's session
MaxSummaryInputs == 6   \* the same, in a run that summarises one meeting
MaxSockets == 6         \* WebSockets one instance of the hook creates in a run
MaxRecordingInputs == 4 \* the same, in a run of one full-conversation connection
MaxPageInputs == 5      \* requests and messages the recording page sends in a run
MaxPageSockets == 2     \* WebSockets the hook of the recording page creates in a run

(* Sets the inputs are drawn from *)

Conns == {"c1", "c2"}
MeetingIds == {1, 2}
Workspaces == {1, 2}
Modes == {"chunked", "full"}
Null == 0 - 1          \* a NULL column / absent Date
NoMeeting == 0         \* currentMeetingId = null (falsy; serial ids start at 1)

(* Clock advances: a little under two seconds, a little over the ten-second
   flush interval of the chunked handler. *)
TickSteps == {1900, 10001}

(* Byte lengths of the audio payloads a client sends: around a third of the
   threshold (three chunks add up to just under, exactly, or just over it),
   and the threshold's neighbours for the one-shot recording. *)
AudioSizes(md) == IF md = "chunked" THEN {333, 334, 1001} ELSE {999, 1000, 1001}

----------------------------------------------------------------------------
(* Text: a tuple of one-character strings *)

S0 == << >>
IsWs(ch) == ch \in {" ", "\n"}
IsLetter(ch) == ch \in {"a", "b", "B"}

RECURSIVE TrimStart(_)
TrimStart(s) ==
    IF s = S0 THEN S0
    ELSE IF IsWs(Head(s)) THEN TrimStart(Tail(s)) ELSE s

RECURSIVE TrimEnd(_)
TrimEnd(s) ==
    IF s = S0 THEN S0
    ELSE IF IsWs(s[Len(s)]) THEN TrimEnd(SubSeq(s, 1, Len(s) - 1)) ELSE s

(* String.prototype.trim *)
Trim(s) == TrimEnd(TrimStart(s))

(* s.split(/\s+/).length: one more than the number of maximal whitespace runs *)
SplitLength(s) ==
    1 + Cardinality({i \in 1..Len(s) :
                        IsWs(s[i]) /\ (i = Len(s) \/ ~IsWs(s[i + 1]))})

(* index of the first ":" of s, 0 if there is none *)
FirstColon(s) ==
    IF \E i \in 1..Len(s) : s[i] = ":"
    THEN CHOOSE i \in 1..Len(s) : s[i] = ":" /\ \A j \in 1..(i - 1) : s[j] # ":"
    ELSE 0

(* transcriptSegment.match(/^([A-Za-z\s]+):\s*(.+)$/): "." matches no newline *)
SpeakerMatch(s) ==
    LET k == FirstColon(s) IN
        /\ k > 1
        /\ \A j \in 1..(k - 1) : IsLetter(s[j]) \/ IsWs(s[j])
        /\ k < Len(s)
        /\ s[Len(s)] # "\n"
        /\ \A j \in (k + 1)..Len(s) : s[j] = "\n" => \A i \in (k + 1)..j : IsWs(s[i])

UnknownSpeaker == <<"?">>

(* extractSpeakerInfo of the current revision of services/openai.ts *)
extractSpeakerInfo(s) ==
    IF SpeakerMatch(s)
    THEN LET k == FirstColon(s) IN
            [speaker |-> Trim(SubSeq(s, 1, k - 1)),
             text    |-> Trim(SubSeq(s, k + 1, Len(s)))]
    ELSE [speaker |-> UnknownSpeaker, text |-> Trim(s)]

(* What the Whisper endpoint may answer for a buffer, before transcribeAudio
   trims it; the empty text also stands for "every format failed". *)
WhisperResults ==
    { S0, <<" ">>, <<"a", " ", "b">>, <<"B", ":", " ", "a">> }

(* transcript.map(s => `${s.speakerName}: ${s.text}`).join("\n") *)
RECURSIVE FullTranscript(_)
FullTranscript(segs) ==
    IF segs = << >> THEN S0
    ELSE LET line == Head(segs).speakerName \o <<":", " ">> \o Head(segs).text IN
         IF Len(segs) = 1 THEN line
         ELSE line \o <<"\n">> \o FullTranscript(Tail(segs))

----------------------------------------------------------------------------
(* services/openai.ts *)

MinAudioBytes == 1000

(* a variant of the check below that is off by one byte *)
TooSmallOffByOne(len) == len < MinAudioBytes - 1

(* transcribeAudio: a buffer this short returns { text: "" } before any request *)
TooSmallToTranscribe(len) == len < MinAudioBytes

(* What the chat-completions endpoint may answer with, as the parsed JSON
   object; ok = FALSE is a failed request or unparsable content.  A field the
   answer lacks is "" (title, summary); isArray tells whether actionItems is
   an array. *)
RawItem == [task |-> "write the release notes", assignee |-> "Alice", priority |-> "high"]
AiResults ==
    { [ok |-> FALSE, title |-> "", summary |-> "", isArray |-> FALSE,
       actionItems |-> << >>],
      [ok |-> TRUE, title |-> "Sprint review", summary |-> "ai summary",
       isArray |-> TRUE, actionItems |-> <<RawItem>>],
      [ok |-> TRUE, title |-> "", summary |-> "", isArray |-> FALSE,
       actionItems |-> << >>] }

(* a || b of two strings *)
Or(a, b) == IF a # "" THEN a ELSE b

(* generateMeetingSummary of services/openai.ts for a non-empty transcript:
   the MeetingSummaryData returned for the endpoint's answer raw *)
SummaryData(raw, meetingTitle) ==
    IF raw.ok
    THEN [title        |-> Or(raw.title, Or(meetingTitle, "Meeting Summary")),
          summary      |-> Or(raw.summary,
                              "Meeting summary could not be generated from the available transcript."),
          keyTakeaways |-> <<"takeaway">>,
          decisions    |-> <<"decision">>,
          actionItems  |-> IF raw.isArray THEN raw.actionItems ELSE << >>]
    ELSE [title        |-> Or(meetingTitle, "Meeting Summary"),
          summary      |-> "Meeting summary generation failed due to processing error.",
          keyTakeaways |-> <<"Summary generation encountered an error">>,
          decisions    |-> << >>,
          actionItems  |-> << >>]

----------------------------------------------------------------------------
(* storage.ts and services/meeting.ts *)

MeetingStatuses == {"scheduled", "recording", "completed"}
DefaultTitle == "New Meeting"

Exists(m) == m \in 1..Len(meetings)

(* the row storage.createMeeting inserts *)
NewMeeting(workspaceId, title, status, startTime) ==
    [workspaceId |-> workspaceId, title |-> title, status |-> status,
     startTime |-> startTime, endTime |-> Null, duration |-> Null,
     wordCount |-> 0]

(* createdAt: defaultNow() of the insert.  Rows inserted by separate requests
   get increasing instants; the instant is the row's rank of insertion. *)
Inserted(table, row) ==
    [f \in DOMAIN row \cup {"createdAt"} |->
        IF f = "createdAt" THEN Len(table) + 1 ELSE row[f]]

(* a variant of the duration below that forgets the division: milliseconds *)
DurationInMillis(startTime, endTime) ==
    IF startTime # Null THEN endTime - startTime ELSE 0

(* stopMeeting: Math.floor((endTime - startTime) / 1000), 0 without a startTime *)
Duration(startTime, endTime) ==
    IF startTime # Null THEN (endTime - startTime) \div 1000 ELSE 0

(* the summary generateMeetingSummary stores for an empty transcript *)
PlaceholderSummary ==
    [summary      |-> "This meeting was recorded but no transcript content was captured.",
     keyTakeaways |-> <<"No audio content was transcribed">>,
     decisions    |-> <<"No decisions recorded">>]

(* the row storage.createActionItem inserts for an item of the summary *)
NewActionItem(m, item) ==
    [meetingId |-> m, task |-> item.task, assigneeName |-> item.assignee,
     priority |-> item.priority, status |-> "pending"]

RECURSIVE NewActionItems(_, _)
NewActionItems(m, items) ==
    IF items = << >> THEN << >>
    ELSE <<NewActionItem(m, Head(items))>> \o NewActionItems(m, Tail(items))

(* addTranscriptSegment(meetingId, text) without a speaker: the segment row *)
NewSegment(text) ==
    LET x == extractSpeakerInfo(text) IN
        [speakerName |-> IF x.speaker = S0 THEN UnknownSpeaker ELSE x.speaker,
         text        |-> x.text]

(* addTranscriptSegment: (meeting.wordCount || 0) + finalText.split(/\s+/).length *)
WordCountAfterSegment(wordCount, finalText) ==
    (IF wordCount = Null THEN 0 ELSE wordCount) + SplitLength(finalText)

(* processCompleteAudio: text.split(/\s+/).length, stored over the count
   addTranscriptSegment has just written *)
WordCountAfterCompleteAudio(wordCount, text) == SplitLength(text)

(* a variant of the test below that never takes the empty-transcript branch *)
NoTranscriptIgnored(segs) == FALSE

(* generateMeetingSummary: !fullTranscript.trim() *)
NoTranscript(segs) == Trim(FullTranscript(segs)) = S0

(* generateMeetingSummary: summaryData.title && summaryData.title !== "New Meeting" *)
OverwritesTitle(title) == title # "" /\ title # DefaultTitle

(* a variant of the update below that also writes status 'recording' *)
MeetingsAfterSummaryReopened(m, data) ==
    [meetings EXCEPT ![m].title = data.title, ![m].status = "recording"]

(* generateMeetingSummary after the gateway answered: the meetings table *)
MeetingsAfterSummary(m, data) ==
    IF OverwritesTitle(data.title)
    THEN [meetings EXCEPT ![m].title = data.title]
    ELSE meetings

(* seq without its i-th element *)
RemoveAt(seq, i) == SubSeq(seq, 1, i - 1) \o SubSeq(seq, i + 1, Len(seq))

RECURSIVE TotalLen(_)
TotalLen(chunks) ==
    IF chunks = << >> THEN 0 ELSE Head(chunks).len + TotalLen(Tail(chunks))

----------------------------------------------------------------------------
NoHttp == [route |-> "", id |-> 0, req |-> << >>, status |-> 0, body |-> << >>]

(* Initial state: the server has started at time 0 in revision md, the
   clients cs have connected, the meetings table holds ms and nothing else
   has happened; a run takes n requests, messages and clock advances. *)

Started(md, cs, n, ms) ==
    /\ mode = md
    /\ clients = cs
    /\ budget = n
    /\ tooSmall = 0
    /\ now = 0
    /\ meetings = ms
    /\ transcript = [m \in MeetingIds |-> << >>]
    /\ summaries = [m \in MeetingIds |-> << >>]
    /\ actionItems = << >>
    /\ summaryTimers = [m \in MeetingIds |-> 0]
    /\ summaryTasks = << >>
    /\ currentMeetingId = [c \in Conns |-> NoMeeting]
    /\ audioChunks = [c \in Conns |-> << >>]
    /\ lastProcessTime = [c \in Conns |-> 0]
    /\ inflight = [c \in Conns |-> << >>]
    /\ sent = [c \in Conns |-> << >>]
    /\ epoch = [c \in Conns |-> 0]
    /\ ended = [c \in Conns |-> NoMeeting]
    /\ inputs = 0
    /\ sttLog = << >>
    /\ sumCalls = 0
    /\ chatMessages = << >>
    /\ http = NoHttp
    /\ lifecycle = "new"
    /\ sockets = << >>
    /\ wsCurrent = 0
    /\ connectionStatus = "Disconnected"
    /\ reconnectCount = 0
    /\ reconnectTimers = {}
    /\ reconnectTimeoutId = 0
    /\ timersSet = 0
    /\ attempts = 0
    /\ pageMeetingId = 0
    /\ pageRecording = FALSE
    /\ isPaused = FALSE
    /\ recorder = "inactive"
    /\ mutation = [kind |-> "idle", at |-> 0]
    /\ outbox = << >>
    /\ seen = [c \in Conns |-> 0]

Init == \E md \in Modes : Started(md, Conns, MaxInputs, << >>)

(* the chunked revision with one client connected, and meeting 1 started over
   HTTP at time 0 *)
InitSession ==
    Started("chunked", {"c1"}, MaxSessionInputs,
            <<Inserted(<< >>, NewMeeting(1, DefaultTitle, "recording", 0))>>)

(* what no step of the server changes: the configuration of the run, and the
   state of the browser's hook and page *)
fixedVars == <<mode, clients, budget, hookVars, pageVars>>
dbVars == <<meetings, transcript, summaries, actionItems>>
bgVars == <<summaryTimers, summaryTasks>>
connVars == <<currentMeetingId, audioChunks, lastProcessTime, inflight, sent,
              epoch, ended>>

(* the request of an HTTP exchange and the status and body it was answered
   with: res.json(body) answers 200 *)
Http(route, id, req, status, body) ==
    [route |-> route, id |-> id, req |-> req, status |-> status, body |-> body]

(* one more request, message or clock advance is taken *)
Input == inputs < budget /\ inputs' = inputs + 1

----------------------------------------------------------------------------
(* Time passes *)

Tick(d) ==
    /\ Input
    /\ now' = now + d
    /\ http' = NoHttp
    /\ UNCHANGED <<fixedVars, chatMessages, tooSmall, dbVars, bgVars, connVars, sttLog, sumCalls>>

----------------------------------------------------------------------------
(* HTTP routes *)

(* POST /api/meetings/start -> MeetingService.startMeeting *)
StartMeeting(workspaceId, title) ==
    /\ Input
    /\ Len(meetings) < Cardinality(MeetingIds)
    /\ meetings' = Append(meetings,
          Inserted(meetings, NewMeeting(workspaceId, title, "recording", now)))
    /\ http' = Http("POST /api/meetings/start", Len(meetings'), << >>, 200, << >>)
    /\ UNCHANGED <<fixedVars, chatMessages, tooSmall, now, transcript, summaries, actionItems, bgVars,
                   connVars, sttLog, sumCalls>>

(* POST /api/meetings -> storage.createMeeting, no startTime in the body *)
CreateMeeting(workspaceId, title, status) ==
    /\ Input
    /\ Len(meetings) < Cardinality(MeetingIds)
    /\ meetings' = Append(meetings,
          Inserted(meetings, NewMeeting(workspaceId, title, status, Null)))
    /\ http' = Http("POST /api/meetings", Len(meetings'), << >>, 200, << >>)
    /\ UNCHANGED <<fixedVars, chatMessages, tooSmall, now, transcript, summaries, actionItems, bgVars,
                   connVars, sttLog, sumCalls>>

(* POST /api/meetings/:id/stop -> MeetingService.stopMeeting *)
StopMeeting(m) ==
    /\ Input
    /\ IF Exists(m)
       THEN /\ meetings' = [meetings EXCEPT
                               ![m].status = "completed",
                               ![m].endTime = now,
                               ![m].duration = Duration(meetings[m].startTime, now)]
            /\ summaryTimers' = [summaryTimers EXCEPT ![m] = @ + 1]
       ELSE \* throw new Error("Meeting not found"): the route answers 500
            UNCHANGED <<meetings, summaryTimers>>
    /\ http' = IF Exists(m)
               THEN Http("POST /api/meetings/:id/stop", m, << >>, 200, << >>)
               ELSE Http("POST /api/meetings/:id/stop", m, << >>, 500, << >>)
    /\ UNCHANGED <<fixedVars, chatMessages, tooSmall, now, transcript, summaries, actionItems, summaryTasks,
                   connVars, sttLog, sumCalls>>

(* POST /api/action-items with body: insertActionItemSchema.parse, then
   storage.createActionItem; the insert fails on a meeting id that does not
   exist (foreign key) and the route answers 500 *)
ActionItemBodies ==
    { [meetingId |-> m, task |-> "follow up", assigneeName |-> "Bob",
       priority |-> "medium", status |-> "pending"] : m \in MeetingIds }

CreateActionItem(body) ==
    /\ Input
    /\ IF Exists(body.meetingId)
       THEN /\ actionItems' = Append(actionItems, body)
            /\ http' = Http("POST /api/action-items", Len(actionItems'), <<body>>,
                            200, <<body>>)
       ELSE /\ UNCHANGED actionItems
            /\ http' = Http("POST /api/action-items", 0, <<body>>, 500, << >>)
    /\ UNCHANGED <<fixedVars, chatMessages, tooSmall, now, meetings, transcript, summaries, bgVars,
                   connVars, sttLog, sumCalls>>

(* the bodies of PATCH /api/action-items/:id *)
ActionItemUpdates ==
    { [status |-> "completed"], [status |-> "pending"], [priority |-> "high"] }

(* .set({ ...updates }) on a row *)
SetFields(row, updates) ==
    [f \in DOMAIN row |-> IF f \in DOMAIN updates THEN updates[f] ELSE row[f]]

(* a variant of the update below that lost its where clause *)
UpdatedEveryActionItem(id, updates) ==
    [j \in 1..Len(actionItems) |-> SetFields(actionItems[j], updates)]

(* storage.updateActionItem: the table after update ... where id = id *)
UpdatedActionItems(id, updates) ==
    [j \in 1..Len(actionItems) |->
        IF j = id THEN SetFields(actionItems[j], updates) ELSE actionItems[j]]

(* storage.getActionItems(m): the items of meeting m, by creation *)
getActionItems(m) ==
    SelectSeq(actionItems, LAMBDA item : item.meetingId = m)

(* PATCH /api/action-items/:id with body updates: an id without a row updates
   nothing and is answered 200 with an empty body *)
UpdateActionItem(id, updates) ==
    /\ Input
    /\ actionItems' = UpdatedActionItems(id, updates)
    /\ http' = Http("PATCH /api/action-items/:id", id, <<updates>>, 200,
                    IF id \in 1..Len(actionItems) THEN <<actionItems'[id]>> ELSE << >>)
    /\ UNCHANGED <<fixedVars, chatMessages, tooSmall, now, meetings, transcript, summaries, bgVars,
                   connVars, sttLog, sumCalls>>

----------------------------------------------------------------------------
(* POST /api/chat *)

RecentMeetingsLimit == 5

(* the rows of meeting m in transcript_segments and meeting_summaries *)
TranscriptOf(m) == IF m \in DOMAIN transcript THEN transcript[m] ELSE << >>
SummariesOf(m) == IF m \in DOMAIN summaries THEN summaries[m] ELSE << >>

(* the ids among ids of the limit rows with the latest createdAt, latest first *)
RECURSIVE LatestFirst(_, _)
LatestFirst(ids, limit) ==
    IF ids = {} \/ limit = 0 THEN << >>
    ELSE LET top == CHOOSE i \in ids :
                        \A j \in ids : meetings[j].createdAt <= meetings[i].createdAt
         IN  <<top>> \o LatestFirst(ids \ {top}, limit - 1)

(* a variant of the query below that orders by createdAt ascending *)
RECURSIVE OldestFirst(_, _)
OldestFirst(ids, limit) ==
    IF ids = {} \/ limit = 0 THEN << >>
    ELSE LET top == CHOOSE i \in ids :
                        \A j \in ids : meetings[i].createdAt <= meetings[j].createdAt
         IN  <<top>> \o OldestFirst(ids \ {top}, limit - 1)

getWorkspaceMeetingsAscending(workspaceId, limit) ==
    OldestFirst({m \in 1..Len(meetings) : meetings[m].workspaceId = workspaceId},
                limit)

(* storage.getWorkspaceMeetings(workspaceId, limit).map(m => m.id) *)
getWorkspaceMeetings(workspaceId, limit) ==
    LatestFirst({m \in 1..Len(meetings) : meetings[m].workspaceId = workspaceId},
                limit)

(* rows.slice(0, n) *)
Slice(rows, n) == SubSeq(rows, 1, IF Len(rows) < n THEN Len(rows) ELSE n)

(* the block getMeetingContext appends for meeting m: title and date, the
   summary storage.getMeetingSummary returns if there is one, the action
   items, the first ten segments *)
ContextBlock(m) ==
    [meetingId    |-> m,
     title        |-> meetings[m].title,
     date         |-> meetings[m].createdAt,
     summary      |-> Slice(SummariesOf(m), 1),
     actionItems  |-> getActionItems(m),
     segments     |-> Slice(TranscriptOf(m), 10)]

(* MeetingService.getMeetingContext(meetingIds): a block per id that has a
   meeting, in the order of the ids *)
RECURSIVE getMeetingContext(_)
getMeetingContext(meetingIds) ==
    IF meetingIds = << >> THEN << >>
    ELSE (IF Exists(Head(meetingIds)) THEN <<ContextBlock(Head(meetingIds))>> ELSE << >>)
         \o getMeetingContext(Tail(meetingIds))

(* the bodies of chat requests: workspaceId 0 and hasMessage FALSE are a
   missing field, hasIds FALSE a body without meetingIds *)
ChatRequests ==
    { [workspaceId |-> 1, hasMessage |-> TRUE, hasIds |-> FALSE, meetingIds |-> << >>],
      [workspaceId |-> 2, hasMessage |-> TRUE, hasIds |-> TRUE, meetingIds |-> << >>],
      [workspaceId |-> 1, hasMessage |-> TRUE, hasIds |-> TRUE, meetingIds |-> <<3, 1>>],
      [workspaceId |-> 2, hasMessage |-> TRUE, hasIds |-> TRUE, meetingIds |-> <<2, 9, 2>>],
      [workspaceId |-> 0, hasMessage |-> TRUE, hasIds |-> FALSE, meetingIds |-> << >>],
      [workspaceId |-> 1, hasMessage |-> FALSE, hasIds |-> TRUE, meetingIds |-> <<1>>] }

(* what answerMeetingQuery returns: the model's answer, or its message for a
   failed request *)
ChatAnswers ==
    { "answer",
      "I encountered an error while processing your question. Please try again." }

(* POST /api/chat with body req, the gateway answering with response *)
Chat(req, response) ==
    /\ Input
    /\ IF req.workspaceId = 0 \/ ~req.hasMessage
       THEN /\ http' = Http("POST /api/chat", req.workspaceId, <<req>>, 400, << >>)
            /\ UNCHANGED chatMessages
       ELSE LET context ==
                    IF req.hasIds /\ Len(req.meetingIds) > 0
                    THEN getMeetingContext(req.meetingIds)
                    ELSE getMeetingContext(
                             getWorkspaceMeetings(req.workspaceId, RecentMeetingsLimit))
            IN  /\ chatMessages' = Append(chatMessages,
                       [workspaceId |-> req.workspaceId, response |-> response,
                        meetingIds |-> IF req.hasIds THEN <<req.meetingIds>> ELSE << >>])
                /\ http' = Http("POST /api/chat", req.workspaceId, <<req>>, 200, context)
    /\ UNCHANGED <<fixedVars, tooSmall, now, dbVars, bgVars, connVars, sttLog, sumCalls>>

----------------------------------------------------------------------------
(* MeetingService.generateMeetingSummary *)

(* a variant of the step below, as in the earlier revision of the service:
   "No transcript available for summary generation", and the method returns
   without storing a summary *)
ReturnWithoutSummary(m) ==
    UNCHANGED <<meetings, transcript, summaries, actionItems, sumCalls>>

(* up to the Summarization Gateway call, for the empty transcript: the
   placeholder summary is stored and the method returns *)
StorePlaceholder(m) ==
    /\ summaries' = [summaries EXCEPT ![m] = Append(@, PlaceholderSummary)]
    /\ UNCHANGED <<meetings, transcript, actionItems, sumCalls>>

(* after the Summarization Gateway answered raw, for the title read before *)
StoreSummary(m, data) ==
    /\ meetings' = MeetingsAfterSummary(m, data)
    /\ summaries' = [summaries EXCEPT ![m] =
                        Append(@, [summary      |-> data.summary,
                                   keyTakeaways |-> data.keyTakeaways,
                                   decisions    |-> data.decisions])]
    /\ actionItems' = actionItems \o NewActionItems(m, data.actionItems)

(* the callback of stopMeeting's setTimeout runs generateMeetingSummary(m) *)
TimerFire(m) ==
    /\ summaryTimers[m] > 0
    /\ summaryTimers' = [summaryTimers EXCEPT ![m] = @ - 1]
    /\ IF ~Exists(m)
       THEN UNCHANGED <<dbVars, summaryTasks, sumCalls>>
       ELSE IF NoTranscript(transcript[m])
       THEN StorePlaceholder(m) /\ UNCHANGED summaryTasks
       ELSE /\ summaryTasks' = Append(summaryTasks,
                                      [meetingId |-> m, title |-> meetings[m].title])
            /\ sumCalls' = sumCalls + 1
            /\ UNCHANGED dbVars
    /\ http' = NoHttp
    /\ UNCHANGED <<fixedVars, chatMessages, tooSmall, now, connVars, inputs, sttLog>>

(* the Summarization Gateway answers a timer's generateMeetingSummary *)
SummaryReturn(i, raw) ==
    /\ i \in 1..Len(summaryTasks)
    /\ LET t == summaryTasks[i] IN
           StoreSummary(t.meetingId, SummaryData(raw, t.title))
    /\ summaryTasks' = RemoveAt(summaryTasks, i)
    /\ http' = NoHttp
    /\ UNCHANGED <<fixedVars, chatMessages, tooSmall, now, transcript, summaryTimers, connVars, inputs,
                   sttLog, sumCalls>>

----------------------------------------------------------------------------
(* The WebSocket handler of one connection: wss.on('connection') *)

(* ws.send(JSON.stringify({type, meetingId, text})) *)
Msg(type, meetingId, text) == [type |-> type, meetingId |-> meetingId, text |-> text]
Send(c, msg) == sent' = [sent EXCEPT ![c] = Append(@, msg)]

(* the chunked handler flushes on a chunk when: hasEnoughData || hasTimedOut *)
FlushChunks == 3
FlushInterval == 10000

(* a variant of the test below that flushes only on a fourth chunk *)
ShouldFlushLate(chunks, lastTime) ==
    Len(chunks) > FlushChunks \/ now - lastTime > FlushInterval

(* hasEnoughData || hasTimedOut, after audioChunks.push(audioBuffer) *)
ShouldFlush(chunks, lastTime) ==
    Len(chunks) >= FlushChunks \/ now - lastTime > FlushInterval

(* the full-conversation handler processes a recording when: length > 1000 *)
MinRecordingBytes == 1000

(* a variant of the test below that also takes a recording of 1000 bytes *)
LongEnoughInclusive(len) == len >= MinRecordingBytes

(* audioBuffer.length > 1000 *)
LongEnough(len) == len > MinRecordingBytes

(* a handler suspended in its await *)
Task(kind, pc, m, chunks, text, title) ==
    [kind |-> kind, pc |-> pc, meetingId |-> m, chunks |-> chunks,
     len |-> TotalLen(chunks), now |-> now, text |-> text, title |-> title,
     req |-> Len(sttLog) + 1]

(* a request reaches the Speech-to-Text Gateway *)
Transcribe(c, m, chunks, mid) ==
    sttLog' = Append(sttLog, [conn |-> c, meetingId |-> m, chunks |-> chunks,
                              len |-> TotalLen(chunks), epoch |-> epoch[c],
                              msgMeetingId |-> mid, answered |-> FALSE,
                              speech |-> FALSE])

(* transcribeAudio returns { text } to the request req: raw trimmed, "" when
   every format failed; the log keeps whether there was text *)
Transcribed(req, raw) ==
    sttLog' = [sttLog EXCEPT ![req].answered = TRUE,
                             ![req].speech = (Trim(raw) # S0)]

(* a variant of the test below that takes every transcription as speech *)
AlwaysSpeech(text) == FALSE

(* processAudioChunk, processCompleteAudio: !text.trim() *)
NoSpeech(text) == Trim(text) = S0

(* {type: 'start-meeting', meetingId: mid}.  epoch counts the times the
   message came right after the stop-meeting that ended a session of mid. *)
WsStartMeeting(c, mid) ==
    /\ Input
    /\ currentMeetingId' = [currentMeetingId EXCEPT ![c] = mid]
    /\ epoch' = [epoch EXCEPT ![c] = IF ended[c] = mid THEN @ + 1 ELSE @]
    /\ ended' = [ended EXCEPT ![c] = NoMeeting]
    /\ Send(c, Msg("meeting-started", mid, S0))
    /\ http' = NoHttp
    /\ UNCHANGED <<fixedVars, chatMessages, tooSmall, now, dbVars, bgVars, audioChunks, lastProcessTime,
                   inflight, sttLog, sumCalls>>

(* a variant of the handler below whose currentMeetingId is one variable of
   the module, shared by all connections, instead of one per connection *)
WsStopMeetingShared(c) ==
    /\ Input
    /\ IF currentMeetingId[c] # NoMeeting
       THEN /\ currentMeetingId' = [x \in Conns |-> NoMeeting]
            /\ Send(c, Msg("meeting-stopped", NoMeeting, S0))
       ELSE UNCHANGED <<currentMeetingId, sent>>
    /\ ended' = [ended EXCEPT ![c] = currentMeetingId[c]]
    /\ http' = NoHttp
    /\ UNCHANGED <<fixedVars, chatMessages, tooSmall, now, dbVars, bgVars, audioChunks,
                   lastProcessTime, inflight, epoch, sttLog, sumCalls>>

(* a variant of the handler below that replies meeting-stopped to every
   stop-meeting message, in a session or not *)
WsStopMeetingAlwaysReplies(c) ==
    /\ Input
    /\ currentMeetingId' = [currentMeetingId EXCEPT ![c] = NoMeeting]
    /\ Send(c, Msg("meeting-stopped", NoMeeting, S0))
    /\ ended' = [ended EXCEPT ![c] = currentMeetingId[c]]
    /\ http' = NoHttp
    /\ UNCHANGED <<fixedVars, chatMessages, tooSmall, now, dbVars, bgVars, audioChunks,
                   lastProcessTime, inflight, epoch, sttLog, sumCalls>>

(* {type: 'stop-meeting'} *)
WsStopMeeting(c) ==
    /\ Input
    /\ IF currentMeetingId[c] # NoMeeting
       THEN /\ currentMeetingId' = [currentMeetingId EXCEPT ![c] = NoMeeting]
            /\ Send(c, Msg("meeting-stopped", NoMeeting, S0))
       ELSE UNCHANGED <<currentMeetingId, sent>>
    /\ ended' = [ended EXCEPT ![c] = currentMeetingId[c]]
    /\ http' = NoHttp
    /\ UNCHANGED <<fixedVars, chatMessages, tooSmall, now, dbVars, bgVars, audioChunks, lastProcessTime,
                   inflight, epoch, sttLog, sumCalls>>

(* {type: 'audio-chunk', audio, meetingId: mid} with an audio of len bytes,
   in the chunked revision (server/routes.ts).  A chunk is told from the
   others by id, the number of inputs taken before it. *)
WsAudioChunk(c, mid, len) ==
    /\ mode = "chunked"
    /\ Input
    /\ IF currentMeetingId[c] = NoMeeting
       THEN \* no branch of the handler matches: the message is ignored
            UNCHANGED <<audioChunks, lastProcessTime, inflight, sttLog, tooSmall>>
       ELSE LET chunk == [len |-> len, epoch |-> epoch[c], id |-> inputs]
                chunks == Append(audioChunks[c], chunk)
            IN  IF ~ShouldFlush(chunks, lastProcessTime[c])
                THEN /\ audioChunks' = [audioChunks EXCEPT ![c] = chunks]
                     /\ UNCHANGED <<lastProcessTime, inflight, sttLog, tooSmall>>
                ELSE IF TooSmallToTranscribe(TotalLen(chunks))
                THEN \* transcribeAudio returns "" at once: nothing is stored
                     \* or sent, and the batch is reset
                     /\ tooSmall' = tooSmall + 1
                     /\ audioChunks' = [audioChunks EXCEPT ![c] = << >>]
                     /\ lastProcessTime' = [lastProcessTime EXCEPT ![c] = now]
                     /\ UNCHANGED <<inflight, sttLog>>
                ELSE /\ audioChunks' = [audioChunks EXCEPT ![c] = chunks]
                     /\ inflight' = [inflight EXCEPT ![c] =
                            Append(@, Task("chunk", "stt", currentMeetingId[c],
                                           chunks, S0, ""))]
                     /\ Transcribe(c, currentMeetingId[c], chunks, mid)
                     /\ UNCHANGED <<lastProcessTime, tooSmall>>
    /\ ended' = [ended EXCEPT ![c] = NoMeeting]
    /\ http' = NoHttp
    /\ UNCHANGED <<fixedVars, chatMessages, now, dbVars, bgVars, currentMeetingId, sent, epoch,
                   sumCalls>>

(* {type: 'complete-audio', audio, meetingId: mid} with an audio of len bytes,
   in the full-conversation revision *)
WsCompleteAudio(c, mid, len) ==
    /\ mode = "full"
    /\ Input
    /\ IF currentMeetingId[c] = NoMeeting
       THEN UNCHANGED <<inflight, sent, sttLog, tooSmall>>
       ELSE LET chunk == [len |-> len, epoch |-> epoch[c]]
            IN  IF ~LongEnough(len)
                THEN \* "Recording too short"
                     /\ Send(c, Msg("transcript-error", currentMeetingId[c], S0))
                     /\ UNCHANGED <<inflight, sttLog, tooSmall>>
                ELSE IF TooSmallToTranscribe(len)
                THEN \* transcribeAudio returns "" at once: "No speech detected"
                     /\ tooSmall' = tooSmall + 1
                     /\ Send(c, Msg("transcript-error", currentMeetingId[c], S0))
                     /\ UNCHANGED <<inflight, sttLog>>
                ELSE /\ inflight' = [inflight EXCEPT ![c] =
                            Append(@, Task("complete", "stt", currentMeetingId[c],
                                           <<chunk>>, S0, ""))]
                     /\ Transcribe(c, currentMeetingId[c], <<chunk>>, mid)
                     /\ UNCHANGED <<sent, tooSmall>>
    /\ ended' = [ended EXCEPT ![c] = NoMeeting]
    /\ http' = NoHttp
    /\ UNCHANGED <<fixedVars, chatMessages, now, dbVars, bgVars, currentMeetingId, audioChunks,
                   lastProcessTime, epoch, sumCalls>>

(* MeetingService.addTranscriptSegment(m, text) on an existing meeting: the
   segment is inserted and the meeting's wordCount is updated *)
SegmentStored(m, text) ==
    /\ transcript' = [transcript EXCEPT ![m] = Append(@, NewSegment(text))]

(* the Speech-to-Text Gateway answers raw to the i-th suspended handler of c,
   a chunked batch: the rest of processAudioChunk and of the handler *)
ChunkTranscribed(c, i, raw) ==
    /\ i \in 1..Len(inflight[c])
    /\ inflight[c][i].kind = "chunk"
    /\ LET t == inflight[c][i]
           m == t.meetingId
           text == Trim(raw)
       IN  /\ Transcribed(t.req, raw)
           /\ IF NoSpeech(text)
              THEN UNCHANGED <<meetings, transcript, sent>>
              ELSE IF ~Exists(m)
              THEN \* the insert violates the foreign key: "Failed to process
                   \* audio batch"
                   /\ Send(c, Msg("error", NoMeeting, S0))
                   /\ UNCHANGED <<meetings, transcript>>
              ELSE /\ SegmentStored(m, text)
                   /\ meetings' = [meetings EXCEPT ![m].wordCount =
                          WordCountAfterSegment(@, NewSegment(text).text)]
                   /\ Send(c, Msg("transcript-segment", currentMeetingId[c], text))
           \* Reset for next batch / Reset on error
           /\ audioChunks' = [audioChunks EXCEPT ![c] = << >>]
           /\ lastProcessTime' = [lastProcessTime EXCEPT ![c] = t.now]
    /\ inflight' = [inflight EXCEPT ![c] = RemoveAt(@, i)]
    /\ http' = NoHttp
    /\ UNCHANGED <<fixedVars, chatMessages, tooSmall, now, summaries, actionItems, bgVars, currentMeetingId,
                   epoch, ended, inputs, sumCalls>>

(* the Speech-to-Text Gateway answers raw to the i-th suspended handler of c,
   a complete recording: processCompleteAudio up to the Summarization Gateway
   call of generateMeetingSummary, or to the handler's reply *)
RecordingTranscribed(c, i, raw) ==
    /\ i \in 1..Len(inflight[c])
    /\ inflight[c][i].kind = "complete"
    /\ inflight[c][i].pc = "stt"
    /\ Transcribed(inflight[c][i].req, raw)
    /\ LET t == inflight[c][i]
           m == t.meetingId
           text == Trim(raw)
       IN  IF NoSpeech(text)
           THEN \* "No speech detected in audio recording"
                /\ Send(c, Msg("transcript-error", currentMeetingId[c], S0))
                /\ inflight' = [inflight EXCEPT ![c] = RemoveAt(@, i)]
                /\ UNCHANGED <<dbVars, sumCalls>>
           ELSE IF ~Exists(m)
           THEN \* the insert violates the foreign key: "Transcription failed"
                /\ Send(c, Msg("transcript-error", currentMeetingId[c], S0))
                /\ inflight' = [inflight EXCEPT ![c] = RemoveAt(@, i)]
                /\ UNCHANGED <<dbVars, sumCalls>>
           ELSE /\ SegmentStored(m, text)
                /\ meetings' = [meetings EXCEPT ![m].wordCount =
                       WordCountAfterCompleteAudio(
                           WordCountAfterSegment(@, NewSegment(text).text), text)]
                /\ IF NoTranscript(transcript'[m])
                   THEN /\ summaries' = [summaries EXCEPT ![m] =
                                            Append(@, PlaceholderSummary)]
                        /\ Send(c, Msg("complete-transcript", currentMeetingId[c], text))
                        /\ inflight' = [inflight EXCEPT ![c] = RemoveAt(@, i)]
                        /\ UNCHANGED sumCalls
                   ELSE /\ inflight' = [inflight EXCEPT ![c][i] =
                               [t EXCEPT !.pc = "sum", !.text = text,
                                         !.title = meetings[m].title]]
                        /\ sumCalls' = sumCalls + 1
                        /\ UNCHANGED <<summaries, sent>>
                /\ UNCHANGED actionItems
    /\ http' = NoHttp
    /\ UNCHANGED <<fixedVars, chatMessages, tooSmall, now, bgVars, currentMeetingId, audioChunks,
                   lastProcessTime, epoch, ended, inputs>>

(* the Summarization Gateway answers raw to the i-th suspended handler of c:
   the rest of generateMeetingSummary, of processCompleteAudio and of the
   handler *)
RecordingSummarised(c, i, raw) ==
    /\ i \in 1..Len(inflight[c])
    /\ inflight[c][i].pc = "sum"
    /\ LET t == inflight[c][i] IN
           /\ StoreSummary(t.meetingId, SummaryData(raw, t.title))
           /\ Send(c, Msg("complete-transcript", currentMeetingId[c], t.text))
    /\ inflight' = [inflight EXCEPT ![c] = RemoveAt(@, i)]
    /\ http' = NoHttp
    /\ UNCHANGED <<fixedVars, chatMessages, tooSmall, now, transcript, bgVars, currentMeetingId, audioChunks,
                   lastProcessTime, epoch, ended, inputs, sttLog,
                   sumCalls>>

----------------------------------------------------------------------------

Next ==
    \/ \E d \in TickSteps : Tick(d)
    \/ StartMeeting(1, DefaultTitle)
    \/ CreateMeeting(1, DefaultTitle, "scheduled")
    \/ \E m \in MeetingIds : StopMeeting(m)
    \/ \E m \in MeetingIds : TimerFire(m)
    \/ \E i \in 1..budget, raw \in AiResults : SummaryReturn(i, raw)
    \/ \E c \in clients, m \in MeetingIds : WsStartMeeting(c, m)
    \/ \E c \in clients : WsStopMeeting(c)
    \/ \E c \in clients, m \in MeetingIds, len \in AudioSizes(mode) : WsAudioChunk(c, m, len)
    \/ \E c \in clients, m \in MeetingIds, len \in AudioSizes(mode) : WsCompleteAudio(c, m, len)
    \/ \E c \in clients, i \in 1..budget, raw \in WhisperResults : ChunkTranscribed(c, i, raw)
    \/ \E c \in clients, i \in 1..budget, raw \in WhisperResults : RecordingTranscribed(c, i, raw)
    \/ \E c \in clients, i \in 1..budget, raw \in AiResults : RecordingSummarised(c, i, raw)

Spec == Init /\ [][Next]_vars

(* one connection of the chunked revision, and the meetings it names *)
NextSession ==
    \/ \E d \in TickSteps : Tick(d)
    \/ \E c \in clients, m \in MeetingIds : WsStartMeeting(c, m)
    \/ \E c \in clients : WsStopMeeting(c)
    \/ \E c \in clients, m \in MeetingIds, len \in AudioSizes(mode) : WsAudioChunk(c, m, len)
    \/ \E c \in clients, i \in 1..MaxSessionInputs, raw \in WhisperResults : ChunkTranscribed(c, i, raw)

SpecSession == InitSession /\ [][NextSession]_vars

(* the HTTP routes alone, no client connected: meetings are created and
   stopped, their timers fire, action items are created and updated *)
InitApi == Started("chunked", {}, MaxApiInputs, << >>)

NextApi ==
    \/ CreateMeeting(1, DefaultTitle, "scheduled")
    \/ \E m \in MeetingIds : StopMeeting(m)
    \/ \E m \in MeetingIds : TimerFire(m)
    \/ \E body \in ActionItemBodies : CreateActionItem(body)
    \/ \E id \in 1..2, updates \in ActionItemUpdates : UpdateActionItem(id, updates)

SpecApi == InitApi /\ [][NextApi]_vars

(* a chat request on a table of meetings that POST /api/meetings filled, each
   meeting in one of the workspaces *)
RECURSIVE MeetingsCreated(_)
MeetingsCreated(ws) ==
    IF Len(ws) = 0 THEN << >>
    ELSE LET before == MeetingsCreated(SubSeq(ws, 1, Len(ws) - 1))
         IN  Append(before,
                    Inserted(before, NewMeeting(ws[Len(ws)], DefaultTitle,
                                                "scheduled", Null)))

InitChat ==
    \E n \in 0..MaxChatMeetings : \E ws \in [1..n -> Workspaces] :
        Started("chunked", {}, MaxChats, MeetingsCreated(ws))

NextChat == \E req \in ChatRequests, response \in ChatAnswers : Chat(req, response)

SpecChat == InitChat /\ [][NextChat]_vars

----------------------------------------------------------------------------
(* The browser's useWebSocket hook (hooks/useWebSocket.ts), one instance *)

(* what no step of the hook changes *)
serverVars == <<mode, clients, budget, now, dbVars, bgVars, connVars, inputs,
                tooSmall, sttLog, sumCalls, chatMessages, http>>

(* reconnectAttempts = 3 *)
reconnectAttempts == 3

(* a variant of the test below that allows one more attempt *)
ReconnectAllowedOnceMore(count) == count <= reconnectAttempts

(* onclose: reconnectCount.current < reconnectAttempts *)
ReconnectAllowed(count) == count < reconnectAttempts

(* connect(): ws.current = new WebSocket(wsUrl); setConnectionStatus('Connecting') *)
connect ==
    /\ Len(sockets) < MaxSockets
    /\ sockets' = Append(sockets, "connecting")
    /\ wsCurrent' = Len(sockets) + 1
    /\ connectionStatus' = "Connecting"

(* useEffect: connect on mount *)
HookMount ==
    /\ lifecycle = "new"
    /\ lifecycle' = "mounted"
    /\ connect
    /\ UNCHANGED <<serverVars, pageVars, reconnectCount, reconnectTimers, reconnectTimeoutId,
                   timersSet, attempts>>

(* the socket i connects: its onopen *)
SocketOpen(i) ==
    /\ i \in 1..Len(sockets)
    /\ sockets[i] = "connecting"
    /\ sockets' = [sockets EXCEPT ![i] = "open"]
    /\ connectionStatus' = "Connected"
    /\ reconnectCount' = 0
    /\ attempts' = 0
    /\ UNCHANGED <<serverVars, pageVars, lifecycle, wsCurrent, reconnectTimers,
                   reconnectTimeoutId, timersSet>>

(* the socket i fails, loses its connection or completes the close that
   close() began: its onclose *)
SocketClose(i) ==
    /\ i \in 1..Len(sockets)
    /\ sockets[i] # "closed"
    /\ sockets' = [sockets EXCEPT ![i] = "closed"]
    /\ connectionStatus' = "Disconnected"
    /\ IF ReconnectAllowed(reconnectCount)
       THEN /\ reconnectCount' = reconnectCount + 1
            /\ timersSet' = timersSet + 1
            /\ reconnectTimeoutId' = timersSet + 1
            /\ reconnectTimers' = reconnectTimers \cup {timersSet + 1}
       ELSE UNCHANGED <<reconnectCount, timersSet, reconnectTimeoutId, reconnectTimers>>
    /\ UNCHANGED <<serverVars, pageVars, lifecycle, wsCurrent, attempts>>

(* the callback of the timer id runs after reconnectInterval: connect() *)
ReconnectTimerFire(id) ==
    /\ id \in reconnectTimers
    /\ reconnectTimers' = reconnectTimers \ {id}
    /\ connect
    /\ attempts' = attempts + 1
    /\ UNCHANGED <<serverVars, pageVars, lifecycle, reconnectCount, reconnectTimeoutId, timersSet>>

(* useEffect cleanup on unmount: disconnect() *)
HookUnmount ==
    /\ lifecycle = "mounted"
    /\ lifecycle' = "unmounted"
    /\ reconnectTimers' = reconnectTimers \ {reconnectTimeoutId}
    /\ reconnectTimeoutId' = 0
    /\ sockets' = IF wsCurrent # 0 /\ sockets[wsCurrent] # "closed"
                  THEN [sockets EXCEPT ![wsCurrent] = "closing"]
                  ELSE sockets
    /\ wsCurrent' = 0
    /\ connectionStatus' = "Disconnected"
    /\ UNCHANGED <<serverVars, pageVars, reconnectCount, timersSet, attempts>>

InitHook == Started("full", {}, 0, << >>)

NextHook ==
    \/ HookMount
    \/ \E i \in 1..MaxSockets : SocketOpen(i)
    \/ \E i \in 1..MaxSockets : SocketClose(i)
    \/ \E id \in 1..MaxSockets : ReconnectTimerFire(id)
    \/ HookUnmount

SpecHook == InitHook /\ [][NextHook]_vars

(* one meeting under a title of Titles, one chunked session of it, its stops
   and its summaries; the Summarization Gateway may also suggest the default
   title *)
Titles == {"", DefaultTitle, "Standup"}

TitledResults ==
    AiResults \cup
    { [ok |-> TRUE, title |-> DefaultTitle, summary |-> "ai summary",
       isArray |-> TRUE, actionItems |-> << >>] }

InitSummary == Started("chunked", {"c1"}, MaxSummaryInputs, << >>)

NextSummary ==
    \/ \E title \in Titles : CreateMeeting(1, title, "scheduled")
    \/ \E c \in clients : WsStartMeeting(c, 1)
    \/ Tick(10001)
    \/ \E c \in clients : WsAudioChunk(c, 1, 1001)
    \/ \E c \in clients, i \in 1..MaxSummaryInputs, raw \in WhisperResults :
           ChunkTranscribed(c, i, raw)
    \/ StopMeeting(1)
    \/ TimerFire(1)
    \/ \E i \in 1..MaxSummaryInputs, raw \in TitledResults : SummaryReturn(i, raw)

SpecSummary == InitSummary /\ [][NextSummary]_vars

(* one connection of the full-conversation revision: its sessions and
   recordings, where every gateway call that was issued is answered
   (services/openai.ts turns a failed call into an answer) *)
InitRecording == Started("full", {"c1"}, MaxRecordingInputs, << >>)

NextRecording ==
    \/ StartMeeting(1, DefaultTitle)
    \/ \E c \in clients, m \in MeetingIds : WsStartMeeting(c, m)
    \/ \E c \in clients : WsStopMeeting(c)
    \/ \E c \in clients, m \in MeetingIds, len \in AudioSizes(mode) :
           WsCompleteAudio(c, m, len)
    \/ \E c \in clients, i \in 1..MaxRecordingInputs, raw \in WhisperResults :
           RecordingTranscribed(c, i, raw)
    \/ \E c \in clients, i \in 1..MaxRecordingInputs, raw \in AiResults :
           RecordingSummarised(c, i, raw)

LiveRecording ==
    /\ InitRecording /\ [][NextRecording]_vars
    /\ \A c \in Conns :
          /\ WF_vars(\E i \in 1..MaxRecordingInputs, raw \in WhisperResults :
                         RecordingTranscribed(c, i, raw))
          /\ WF_vars(\E i \in 1..MaxRecordingInputs, raw \in AiResults :
                         RecordingSummarised(c, i, raw))

(* The browser's recording page (pages/recording.tsx) on its hook, and the
   full-conversation server it talks to.  The socket i of the hook is the
   connection ConnOf(i) of the server; the server takes what the browser
   sent in the order of outbox, and inputs counts what it has taken. *)

ConnOf(i) == IF i = 1 THEN "c1" ELSE "c2"

(* sendMessage(message): ws.current.send(...) if ws.current is OPEN, else
   the message is dropped with a warning *)
sendMessage(type, mid, len) ==
    IF wsCurrent # 0 /\ sockets[wsCurrent] = "open"
    THEN <<[conn |-> ConnOf(wsCurrent), type |-> type, meetingId |-> mid, len |-> len]>>
    ELSE << >>

(* apiRequest('POST', ...) *)
apiRequest(route, mid) == [conn |-> "", type |-> route, meetingId |-> mid, len |-> 0]

Idle == [kind |-> "idle", at |-> 0]

(* stopAudioRecording() on a recording of len bytes: mediaRecorder.stop(),
   whose onstop hands the recording to onDataAvailable, which sends it if
   the page has a meeting id and is Connected *)
stopAudioRecording(len, box) ==
    /\ recorder' = "inactive"
    /\ outbox' = IF recorder = "recording" /\ pageMeetingId # 0
                    /\ connectionStatus = "Connected"
                 THEN box \o sendMessage("complete-audio", pageMeetingId, len)
                 ELSE box

(* handleStartRecording: the Start button is rendered while !isRecording and
   disabled while the start mutation is pending *)
handleStartRecording ==
    /\ lifecycle = "mounted"
    /\ ~pageRecording
    /\ mutation.kind # "starting"
    /\ Len(outbox) < budget
    /\ outbox' = Append(outbox, apiRequest("POST /api/meetings/start", 0))
    /\ mutation' = [kind |-> "starting", at |-> Len(outbox) + 1]
    /\ UNCHANGED <<serverVars, hookVars, pageMeetingId, pageRecording, isPaused,
                   recorder, seen>>

(* startMeetingMutation.onSuccess(meeting), once the request was answered *)
startMeetingSuccess ==
    /\ lifecycle = "mounted"
    /\ mutation.kind = "starting"
    /\ inputs >= mutation.at
    /\ Len(outbox) < budget
    /\ mutation' = Idle
    /\ IF connectionStatus = "Connected"
       THEN /\ pageMeetingId' = Len(meetings)
            /\ pageRecording' = TRUE
            /\ outbox' = outbox \o sendMessage("start-meeting", Len(meetings), 0)
            /\ recorder' = "recording"
       ELSE /\ pageMeetingId' = 0
            /\ pageRecording' = FALSE
            /\ UNCHANGED <<outbox, recorder>>
    /\ UNCHANGED <<serverVars, hookVars, isPaused, seen>>

(* handlePauseResume, with a recording of len bytes so far *)
handlePauseResume(len) ==
    /\ lifecycle = "mounted"
    /\ pageRecording
    /\ Len(outbox) < budget
    /\ isPaused' = ~isPaused
    /\ IF isPaused
       THEN recorder' = "recording" /\ UNCHANGED outbox
       ELSE stopAudioRecording(len, outbox)
    /\ UNCHANGED <<serverVars, hookVars, pageMeetingId, pageRecording, mutation, seen>>

(* handleStopRecording: stopMeetingMutation.mutate(), whose mutationFn
   returns at once without a meeting id *)
handleStopRecording ==
    /\ lifecycle = "mounted"
    /\ pageRecording
    /\ mutation.kind = "idle"
    /\ Len(outbox) < budget
    /\ IF pageMeetingId = 0
       THEN mutation' = [kind |-> "stopping", at |-> 0] /\ UNCHANGED outbox
       ELSE /\ outbox' = Append(outbox, apiRequest("POST /api/meetings/:id/stop",
                                                   pageMeetingId))
            /\ mutation' = [kind |-> "stopping", at |-> Len(outbox) + 1]
    /\ UNCHANGED <<serverVars, hookVars, pageMeetingId, pageRecording, isPaused,
                   recorder, seen>>

(* stopMeetingMutation.onSuccess, with a recording of len bytes *)
stopMeetingSuccess(len) ==
    /\ lifecycle = "mounted"
    /\ mutation.kind = "stopping"
    /\ inputs >= mutation.at
    /\ Len(outbox) < budget
    /\ mutation' = Idle
    /\ pageRecording' = FALSE
    /\ isPaused' = FALSE
    /\ stopAudioRecording(len, outbox)
    /\ UNCHANGED <<serverVars, hookVars, pageMeetingId, seen>>

(* the effect on lastMessage, for the next message of the socket i *)
handleMessage(i) ==
    LET c == ConnOf(i) IN
    /\ lifecycle = "mounted"
    /\ i \in 1..Len(sockets)
    /\ sockets[i] = "open"
    /\ seen[c] < Len(sent[c])
    /\ Len(outbox) < budget
    /\ seen' = [seen EXCEPT ![c] = @ + 1]
    /\ IF sent[c][seen[c] + 1].type \in {"complete-transcript", "transcript-error"}
       THEN /\ outbox' = outbox \o sendMessage("stop-meeting", 0, 0)
            /\ pageMeetingId' = 0
       ELSE UNCHANGED <<outbox, pageMeetingId>>
    /\ UNCHANGED <<serverVars, hookVars, pageRecording, isPaused, recorder, mutation>>

(* the server takes the next request or message the browser sent *)
ServerTakes ==
    /\ inputs < Len(outbox)
    /\ LET msg == outbox[inputs + 1] IN
       \/ msg.type = "POST /api/meetings/start" /\ StartMeeting(1, DefaultTitle)
       \/ msg.type = "POST /api/meetings/:id/stop" /\ StopMeeting(msg.meetingId)
       \/ msg.type = "start-meeting" /\ WsStartMeeting(msg.conn, msg.meetingId)
       \/ msg.type = "complete-audio" /\ WsCompleteAudio(msg.conn, msg.meetingId, msg.len)
       \/ msg.type = "stop-meeting" /\ WsStopMeeting(msg.conn)

InitPage == Started("full", Conns, MaxPageInputs, << >>)

NextPage ==
    \/ HookMount
    \/ \E i \in 1..MaxPageSockets : SocketOpen(i)
    \/ \E i \in 1..MaxPageSockets : SocketClose(i)
    \/ \E id \in 1..MaxPageSockets : Len(sockets) < MaxPageSockets /\ ReconnectTimerFire(id)
    \/ HookUnmount
    \/ handleStartRecording
    \/ startMeetingSuccess
    \/ \E len \in AudioSizes(mode) : handlePauseResume(len)
    \/ handleStopRecording
    \/ \E len \in AudioSizes(mode) : stopMeetingSuccess(len)
    \/ \E i \in 1..MaxPageSockets : handleMessage(i)
    \/ ServerTakes
    \/ \E c \in clients, i \in 1..MaxPageInputs, raw \in WhisperResults :
           RecordingTranscribed(c, i, raw)
    \/ \E c \in clients, i \in 1..MaxPageInputs, raw \in AiResults :
           RecordingSummarised(c, i, raw)

SpecPage == InitPage /\ [][NextPage]_vars

(* the same runs, where a timer that is due fires and a Summarization Gateway
   call that was issued is answered: the event loop runs every callback, and
   services/openai.ts turns a failed call into an answer *)
LiveSpec ==
    /\ Init /\ [][Next]_vars
    /\ \A m \in MeetingIds : WF_vars(TimerFire(m))
    /\ WF_vars(\E i \in 1..budget, raw \in AiResults : SummaryReturn(i, raw))
    /\ \A c \in Conns :
          WF_vars(\E i \in 1..budget, raw \in AiResults :
                      RecordingSummarised(c, i, raw))

----------------------------------------------------------------------------
(* Properties *)

Completed(m) == Exists(m) /\ meetings[m].status = "completed"

(* the action items of meeting m *)
ItemsOf(m) == {i \in 1..Len(actionItems) : actionItems[i].meetingId = m}

(* number of whitespace-separated tokens of s: its maximal runs of
   non-whitespace characters *)
TokenCount(s) ==
    Cardinality({i \in 1..Len(s) :
                    ~IsWs(s[i]) /\ (i = Len(s) \/ IsWs(s[i + 1]))})

(* the texts of the segments segs, in timestamp order, one after the other *)
RECURSIVE ConcatTexts(_)
ConcatTexts(segs) ==
    IF segs = << >> THEN S0
    ELSE Head(segs).text \o <<" ">> \o ConcatTexts(Tail(segs))

(* C1: at most one MeetingSummary exists per meeting, whatever combination of
   stopMeeting timers, processCompleteAudio calls and repeated stops ran. *)
C1_AtMostOneSummaryPerMeeting ==
    \A m \in MeetingIds : Len(summaries[m]) <= 1

(* C2: once a meeting is completed, no step adds a TranscriptSegment to it,
   the full-conversation flow included. *)
C2_NoSegmentAfterCompleted ==
    [][\A m \in MeetingIds :
          Completed(m) => Len(transcript'[m]) = Len(transcript[m])]_vars

(* C3: after a stop-meeting followed immediately by a start-meeting of the
   same meeting id, no transcription request contains a chunk received before
   that stop-meeting: every chunk of a request was received after the last
   such restart that preceded the request. *)
C3_NoChunkAcrossRestart ==
    \A i \in 1..Len(sttLog) :
        \A j \in 1..Len(sttLog[i].chunks) :
            sttLog[i].chunks[j].epoch = sttLog[i].epoch

(* C4: no request reaches the Speech-to-Text Gateway for an audio buffer of
   fewer bytes than the minimum of 1000. *)
C4_NoRequestBelowThreshold ==
    \A i \in 1..Len(sttLog) : sttLog[i].len >= 1000

(* C4 happens: a flush of fewer than 1000 bytes reached transcribeAudio and
   was dropped, in a run where longer buffers were transcribed as well *)
C4_ShortBufferDropped ==
    tooSmall > 0 /\ \A i \in 1..Len(sttLog) : sttLog[i].len >= 1000

(* C5: when generateMeetingSummary runs from the stop timer on a meeting with
   no TranscriptSegment, it stores exactly one MeetingSummary, the placeholder,
   creates no ActionItem, leaves the title as it was and issues no
   Summarization Gateway call. *)
C5_PlaceholderForEmptyTranscript ==
    [][\A m \in MeetingIds :
          (summaryTimers'[m] < summaryTimers[m] /\ Exists(m) /\ transcript[m] = << >>)
          => /\ summaries'[m] =
                   Append(summaries[m],
                          [summary      |-> "This meeting was recorded but no transcript content was captured.",
                           keyTakeaways |-> <<"No audio content was transcribed">>,
                           decisions    |-> <<"No decisions recorded">>])
             /\ actionItems' = actionItems
             /\ meetings'[m].title = meetings[m].title
             /\ sumCalls' = sumCalls
             /\ summaryTasks' = summaryTasks]_vars

(* C5 happens: a meeting without segments has its placeholder summary, and
   no gateway call or action item was ever made *)
C5_PlaceholderStored ==
    \E m \in MeetingIds :
        /\ Exists(m) /\ transcript[m] = << >> /\ summaryTimers[m] = 0
        /\ Len(summaries[m]) = 1
        /\ summaries[m][1].keyTakeaways = <<"No audio content was transcribed">>
        /\ sumCalls = 0 /\ actionItems = << >>

(* C6: the wordCount of a completed meeting is the number of
   whitespace-separated tokens of its segments' texts, concatenated in
   timestamp order. *)
C6_WordCountIsTokenCount ==
    \A m \in MeetingIds :
        Completed(m) => meetings[m].wordCount = TokenCount(ConcatTexts(transcript[m]))

(* C7, as claimed: a stopMeeting on a completed meeting changes neither its
   status nor its endTime, and its duration stays the one of its endTime. *)
C7_StopIsIdempotent ==
    [][\A m \in MeetingIds :
          Completed(m)
          => /\ meetings'[m].status = "completed"
             /\ meetings'[m].endTime = meetings[m].endTime
             /\ meetings'[m].duration = meetings[m].duration]_vars

(* C7, amended: a stopMeeting on a completed meeting leaves it completed, sets
   endTime to the time of the call and stores the duration of that endTime:
   the whole seconds from startTime to endTime, 0 without a startTime. *)
C7_RepeatedStopRecomputes ==
    [][\A m \in MeetingIds :
          (Completed(m) /\ summaryTimers'[m] > summaryTimers[m])
          => /\ meetings'[m].status = "completed"
             /\ meetings'[m].endTime = now
             /\ meetings'[m].startTime = meetings[m].startTime
             /\ LET start == meetings'[m].startTime
                    ms    == meetings'[m].endTime - start
                    d     == meetings'[m].duration
                IN  IF start = 0 - 1 THEN d = 0
                    ELSE d * 1000 <= ms /\ ms < d * 1000 + 1000]_vars

(* C7 happens: a meeting was stopped twice and the later stop came more than
   a second after its start *)
C7_StoppedTwice ==
    \E m \in MeetingIds :
        /\ Completed(m)
        /\ summaryTimers[m] >= 2
        /\ meetings[m].startTime = 0
        /\ meetings[m].endTime = 1900
        /\ meetings[m].duration = 1

(* C8: a meeting that was stopped is eventually completed with a summary; as
   long as its transcript is empty, every summary it has is the placeholder
   and it has no action items.  It does not stay completed without a
   summary. *)
C8_StoppedMeetingGetsSummary ==
    \A m \in MeetingIds :
        (Completed(m) /\ summaryTimers[m] > 0)
        ~> /\ Completed(m)
           /\ summaries[m] # << >>
           /\ transcript[m] = << >>
              => /\ \A k \in 1..Len(summaries[m]) :
                       summaries[m][k].summary =
                           "This meeting was recorded but no transcript content was captured."
                 /\ ItemsOf(m) = {}

(* C8 happens: audio was sent to the gateway for a meeting, gave no text, and
   the stopped meeting has the placeholder summary *)
C8_SilentMeetingSummarised ==
    \E m \in MeetingIds :
        /\ Completed(m)
        /\ \E i \in 1..Len(sttLog) : sttLog[i].meetingId = m
        /\ \A c \in Conns : inflight[c] = << >>
        /\ transcript[m] = << >>
        /\ Len(summaries[m]) = 1
        /\ summaries[m][1].decisions = <<"No decisions recorded">>
        /\ ItemsOf(m) = {}

(* C9: an audio message is transcribed only if the meeting id it carries is
   the connection's active meeting id; with another id, or without an active
   session, no transcription request is issued. *)
C9_AudioOnlyForActiveMeeting ==
    \A i \in 1..Len(sttLog) :
        /\ sttLog[i].meetingId # NoMeeting
        /\ sttLog[i].msgMeetingId = sttLog[i].meetingId

(* C10: at most one connection holds a given meeting id as its active
   session. *)
C10_OneConnectionPerMeeting ==
    \A c1 \in clients, c2 \in clients :
        (c1 # c2 /\ currentMeetingId[c1] # NoMeeting)
        => currentMeetingId[c1] # currentMeetingId[c2]

(* C11: a meeting that has a MeetingSummary is completed: no summary is
   created for a meeting that is still recording or scheduled. *)
C11_SummaryOnlyWhenCompleted ==
    \A m \in MeetingIds : summaries[m] # << >> => Completed(m)

(* C15: a stop request for a meeting id that does not exist is answered 404
   (NotFound), changes no meeting and schedules no summary generation. *)
C15_StopUnknownMeetingIs404 ==
    [][(http'.route = "POST /api/meetings/:id/stop" /\ ~Exists(http'.id))
       => /\ http'.status = 404
          /\ meetings' = meetings
          /\ summaryTimers' = summaryTimers]_vars

(* C12: every ActionItem references a meeting for which a MeetingSummary
   exists. *)
C12_ActionItemHasSummary ==
    \A i \in 1..Len(actionItems) : summaries[actionItems[i].meetingId] # << >>

(* C17: updating the status of one pending ActionItem to completed changes
   that item's status and nothing else: the other items, the item's other
   fields, what a read of the meeting lists, the summaries, the transcripts
   and the meetings stay as they were. *)
C17_StatusUpdateChangesOneItem ==
    [][\A k \in 1..Len(actionItems) :
          (/\ http'.route = "PATCH /api/action-items/:id"
           /\ http'.id = k
           /\ http'.req = <<[status |-> "completed"]>>
           /\ actionItems[k].status = "pending")
          => /\ Len(actionItems') = Len(actionItems)
             /\ actionItems'[k] = [actionItems[k] EXCEPT !.status = "completed"]
             /\ \A j \in 1..Len(actionItems) :
                   j # k => actionItems'[j] = actionItems[j]
             /\ \A m \in MeetingIds :
                   /\ Len(getActionItems(m)') = Len(getActionItems(m))
                   /\ \A j \in 1..Len(getActionItems(m)) :
                         getActionItems(m)'[j].status # getActionItems(m)[j].status
                         => /\ m = actionItems[k].meetingId
                            /\ getActionItems(m)'[j].status = "completed"
             /\ summaries' = summaries
             /\ transcript' = transcript
             /\ meetings' = meetings]_vars

(* C17 happens: a meeting with a summary has two action items, the first was
   just set to completed and the second is still pending *)
C17_OneOfTwoCompleted ==
    /\ http.route = "PATCH /api/action-items/:id"
    /\ http.req = <<[status |-> "completed"]>>
    /\ Len(actionItems) = 2
    /\ http.id = 1
    /\ actionItems[1].status = "completed"
    /\ actionItems[2].status = "pending"
    /\ actionItems[1].meetingId = actionItems[2].meetingId
    /\ summaries[actionItems[1].meetingId] # << >>

(* no generateMeetingSummary call for meeting m is scheduled or running *)
SummaryWorkDone(m) ==
    /\ summaryTimers[m] = 0
    /\ \A i \in 1..Len(summaryTasks) : summaryTasks[i].meetingId # m
    /\ \A c \in Conns : \A i \in 1..Len(inflight[c]) : inflight[c][i].meetingId # m

(* C13: when the Summarization Gateway failed for a meeting with a
   transcript, the degenerate summary of the failure is stored, and once no
   summary generation is pending the completed meeting has exactly one
   summary, that one. *)
C13_FailedSummaryIsTheOnlyOne ==
    \A m \in MeetingIds :
        (/\ Completed(m)
         /\ SummaryWorkDone(m)
         /\ \E k \in 1..Len(summaries[m]) :
               summaries[m][k].summary =
                   "Meeting summary generation failed due to processing error.")
        => Len(summaries[m]) = 1

(* C14: when the Speech-to-Text Gateway fails or answers no text, or the
   buffer is dropped as too small, no TranscriptSegment is created, no meeting
   changes, and every connection keeps its current meeting id: the session
   stays active for later audio and stop-meeting messages. *)
C14_EmptyTranscriptionIsNonFatal ==
    [][(\/ tooSmall' > tooSmall
        \/ \E i \in 1..Len(sttLog) :
              /\ ~sttLog[i].answered
              /\ sttLog'[i].answered
              /\ ~sttLog'[i].speech)
       => /\ transcript' = transcript
          /\ meetings' = meetings
          /\ summaries' = summaries
          /\ currentMeetingId' = currentMeetingId]_vars

(* C14 happens: a request for an existing meeting was answered without text,
   and the same connection, still in the session of that meeting, had a later
   request answered with text that is now a segment *)
C14_RetryAfterEmptyTranscription ==
    \E i \in 1..Len(sttLog), j \in 1..Len(sttLog) :
        /\ i < j
        /\ sttLog[i].answered /\ ~sttLog[i].speech
        /\ sttLog[j].answered /\ sttLog[j].speech
        /\ sttLog[j].conn = sttLog[i].conn
        /\ sttLog[j].meetingId = sttLog[i].meetingId
        /\ currentMeetingId[sttLog[i].conn] = sttLog[i].meetingId
        /\ Exists(sttLog[i].meetingId)
        /\ transcript[sttLog[i].meetingId] # << >>

(* C16: a chat request without meeting ids, or with an empty list, gets the
   context of the 5 most recent meetings of its workspace; a request with a
   non-empty list gets blocks for exactly the listed meetings that exist, in
   the order of the list. *)
C16_ChatContextMeetings ==
    (http.route = "POST /api/chat" /\ http.status = 200)
    => LET req  == http.req[1]
           ids  == [k \in 1..Len(http.body) |-> http.body[k].meetingId]
           mine == {m \in 1..Len(meetings) : meetings[m].workspaceId = req.workspaceId}
       IN  IF req.hasIds /\ req.meetingIds # << >>
           THEN ids = SelectSeq(req.meetingIds, LAMBDA m : m \in 1..Len(meetings))
           ELSE /\ Len(ids) = IF Cardinality(mine) < 5 THEN Cardinality(mine) ELSE 5
                /\ \A k \in 1..Len(ids) : ids[k] \in mine
                /\ \A k \in 1..Len(ids) : \A l \in 1..Len(ids) :
                      k < l => meetings[ids[k]].createdAt > meetings[ids[l]].createdAt
                /\ \A m \in mine : \A k \in 1..Len(ids) :
                      (\A l \in 1..Len(ids) : ids[l] # m)
                      => meetings[m].createdAt < meetings[ids[k]].createdAt

(* C16 happens: a chat request without meeting ids in a workspace of more
   than five meetings was answered with five blocks *)
C16_FiveOfMoreMeetings ==
    /\ http.route = "POST /api/chat"
    /\ http.status = 200
    /\ ~http.req[1].hasIds
    /\ Cardinality({m \in 1..Len(meetings) :
                       meetings[m].workspaceId = http.req[1].workspaceId}) > 5
    /\ Len(http.body) = 5

(* C18: the messages of one connection take effect in arrival order: while an
   earlier message of the connection is awaiting a gateway call, no later
   message changes the current meeting id, buffers a chunk or issues a
   request on that connection. *)
C18_MessagesInArrivalOrder ==
    [][\A c \in clients :
          inflight[c] # << >>
          => /\ currentMeetingId'[c] = currentMeetingId[c]
             /\ Len(inflight'[c]) <= Len(inflight[c])
             /\ Len(audioChunks'[c]) <= Len(audioChunks[c])
             /\ Len(sttLog') = Len(sttLog)]_vars

(* the session state of connection c *)
Session(c) == <<currentMeetingId[c], audioChunks[c], lastProcessTime[c]>>

(* C19: the session state of a connection (current meeting id, audio buffer,
   last flush time) changes only in steps of that connection: a step that
   handles a message of another connection, an HTTP request or background
   summary work leaves it as it was. *)
C19_SessionStateIsPerConnection ==
    [][/\ \A a \in Conns, b \in Conns :
             (/\ a # b
              /\ \/ sent'[a] # sent[a]
                 \/ inflight'[a] # inflight[a]
                 \/ ended'[a] # ended[a]
                 \/ Session(a)' # Session(a))
             => Session(b)' = Session(b)
       /\ (\/ summaryTimers' # summaryTimers
           \/ summaryTasks' # summaryTasks
           \/ http' # NoHttp)
          => \A c \in Conns : Session(c)' = Session(c)]_vars

(* C19 happens: two connections had a session of the same meeting; one has
   handled its stop-meeting and the other is still in its session *)
C19_OneStoppedOneActive ==
    \E a \in Conns, b \in Conns :
        /\ a # b
        /\ currentMeetingId[a] # NoMeeting
        /\ currentMeetingId[b] = NoMeeting
        /\ ended[b] = currentMeetingId[a]
        /\ Len(sent[b]) = 2
        /\ sent[b][2].type = "meeting-stopped"

(* C20: a stop-meeting that ends a chunked session with chunks buffered, none
   of them in a request under way, sends them for transcription and empties
   the buffer. *)
C20_StopFlushesBufferedAudio ==
    [][\A c \in clients :
          (/\ mode = "chunked"
           /\ currentMeetingId[c] # NoMeeting
           /\ currentMeetingId'[c] = NoMeeting
           /\ audioChunks[c] # << >>
           /\ inflight[c] = << >>)
          => /\ Len(sttLog') > Len(sttLog) \/ tooSmall' > tooSmall
             /\ audioChunks'[c] = << >>]_vars

(* a step in which connection c, in a session of the chunked revision,
   receives an audio chunk: the chunk joins the buffer, or the buffer is
   dropped as too small *)
ChunkReceived(c) ==
    /\ mode = "chunked"
    /\ \/ Len(audioChunks'[c]) = Len(audioChunks[c]) + 1
       \/ tooSmall' > tooSmall /\ Session(c)' # Session(c)

(* the step flushes the buffer: transcribeAudio is called on it, and either
   sends a request or returns at once for a buffer that is too small *)
BufferFlushed == Len(sttLog') > Len(sttLog) \/ tooSmall' > tooSmall

(* the step answers the request req of a chunked session *)
ChunkRequestAnswered(req) ==
    mode = "chunked" /\ ~sttLog[req].answered /\ sttLog'[req].answered

(* the step stores one segment for meeting m and sends connection c one
   reply of the given type *)
OneSegmentOneReply(c, m, type) ==
    /\ Len(transcript'[m]) = Len(transcript[m]) + 1
    /\ \A n \in MeetingIds \ {m} : transcript'[n] = transcript[n]
    /\ Len(sent'[c]) = Len(sent[c]) + 1
    /\ sent'[c][Len(sent'[c])].type = type

(* the flush rule of C21, its timing, the order of the flushed chunks and the
   state of the buffer afterwards *)
FlushRule ==
    /\ \A c \in clients :
          ChunkReceived(c)
          => (BufferFlushed <=> (\/ Len(audioChunks[c]) + 1 >= 3
                                 \/ now - lastProcessTime[c] > 10000))
    /\ (mode = "chunked" /\ BufferFlushed) => \E c \in clients : ChunkReceived(c)
    /\ (mode = "chunked" /\ Len(sttLog') > Len(sttLog))
       => LET r == sttLog'[Len(sttLog')]
          IN  /\ Len(r.chunks) = Len(audioChunks[r.conn]) + 1
              /\ SubSeq(r.chunks, 1, Len(audioChunks[r.conn])) = audioChunks[r.conn]
    /\ (mode = "chunked" /\ tooSmall' > tooSmall)
       => /\ transcript' = transcript
          /\ sent' = sent
          /\ \A c \in clients : ChunkReceived(c) => audioChunks'[c] = << >>
    /\ \A i \in 1..Len(sttLog) :
          ChunkRequestAnswered(i)
          => /\ audioChunks'[sttLog[i].conn] = << >>
             /\ ~sttLog'[i].speech => transcript' = transcript /\ sent' = sent

(* C21 as stated: in chunked mode the buffer is flushed exactly when a chunk
   arrives and at least 3 chunks are buffered or more than 10000 ms passed
   since the last flush; the request holds the buffered chunks in arrival
   order; every non-empty result creates one TranscriptSegment and one
   transcript-segment reply, an empty result neither; and the buffer is empty
   after the flush. *)
C21_FlushCreatesSegment ==
    [][/\ FlushRule
       /\ \A i \in 1..Len(sttLog) :
             (ChunkRequestAnswered(i) /\ sttLog'[i].speech)
             => OneSegmentOneReply(sttLog[i].conn, sttLog[i].meetingId,
                                   "transcript-segment")]_vars

(* C21, amended: as above, but a non-empty result creates the segment and the
   transcript-segment reply only if the meeting of the session exists;
   otherwise storing the segment fails, no segment is created and the one
   reply is an error.  The buffer is empty afterwards in every case. *)
C21_FlushCreatesSegmentIfMeetingExists ==
    [][/\ FlushRule
       /\ \A i \in 1..Len(sttLog) :
             (ChunkRequestAnswered(i) /\ sttLog'[i].speech)
             => IF Exists(sttLog[i].meetingId)
                THEN OneSegmentOneReply(sttLog[i].conn, sttLog[i].meetingId,
                                        "transcript-segment")
                ELSE /\ transcript' = transcript
                     /\ Len(sent'[sttLog[i].conn]) = Len(sent[sttLog[i].conn]) + 1
                     /\ sent'[sttLog[i].conn][Len(sent'[sttLog[i].conn])].type
                            = "error"]_vars

(* C21 happens: a batch of three chunks was flushed, the answer had text, the
   segment is stored and replied, and the buffer is empty *)
C21_BatchOfThreeStored ==
    \E i \in 1..Len(sttLog) :
        /\ mode = "chunked"
        /\ Len(sttLog[i].chunks) = 3
        /\ sttLog[i].answered /\ sttLog[i].speech
        /\ Exists(sttLog[i].meetingId)
        /\ Len(transcript[sttLog[i].meetingId]) = 1
        /\ audioChunks[sttLog[i].conn] = << >>
        /\ sent[sttLog[i].conn] # << >>
        /\ sent[sttLog[i].conn][Len(sent[sttLog[i].conn])].type = "transcript-segment"

(* C22: a stop-meeting received in a session clears the current meeting id
   and replies meeting-stopped, and the session ends in no other way.  While
   a connection is outside a session and no earlier handler of it completes,
   nothing is sent to it, buffered for it or requested for it: audio messages
   and further stop-meeting messages are ignored until a start-meeting. *)
C22_StopMeetingEndsSession ==
    [][\A c \in clients :
          /\ (ended'[c] # NoMeeting /\ ended'[c] # ended[c])
             => /\ currentMeetingId[c] = ended'[c]
                /\ currentMeetingId'[c] = NoMeeting
          /\ (currentMeetingId[c] # NoMeeting /\ currentMeetingId'[c] = NoMeeting)
             => /\ sent'[c] = Append(sent[c], Msg("meeting-stopped", NoMeeting, S0))
                /\ dbVars' = dbVars
          /\ (currentMeetingId[c] = NoMeeting /\ currentMeetingId'[c] = NoMeeting)
             => /\ Len(inflight'[c]) <= Len(inflight[c])
                /\ \A i \in 1..Len(sttLog') :
                      i > Len(sttLog) => sttLog'[i].conn # c
                /\ inflight'[c] = inflight[c]
                   => /\ sent'[c] = sent[c]
                      /\ audioChunks'[c] = audioChunks[c]
                      /\ lastProcessTime'[c] = lastProcessTime[c]]_vars

(* C22 happens: a connection ended its session, its last reply is
   meeting-stopped, and it has since received an audio or stop-meeting
   message, which left no request and no reply *)
C22_MessageIgnoredAfterStop ==
    \E c \in clients :
        /\ currentMeetingId[c] = NoMeeting
        /\ Len(sent[c]) = 2
        /\ sent[c][2].type = "meeting-stopped"
        /\ ended[c] = NoMeeting
        /\ \A i \in 1..Len(sttLog) : sttLog[i].conn # c

(* C23: generateMeetingSummary sets the meeting's title to the title the
   Summarization Gateway suggested if and only if that title is non-empty and
   is not 'New Meeting'; in every other case, the failed call and the
   empty-transcript path included, the title stays as it is. *)
C23_TitleOverwrittenIffSuggested ==
    [][/\ \A i \in 1..Len(summaryTasks), raw \in TitledResults :
             SummaryReturn(i, raw)
             => LET m == summaryTasks[i].meetingId
                    suggested == IF raw.ok THEN raw.title ELSE ""
                IN  meetings'[m].title =
                        IF suggested # "" /\ suggested # "New Meeting"
                        THEN suggested
                        ELSE meetings[m].title
       /\ \A m \in MeetingIds :
             (Exists(m) /\ summaryTasks' = summaryTasks)
             => meetings'[m].title = meetings[m].title]_vars

(* the ids of the chunks in chunks *)
ChunkIds(chunks) == {chunks[k].id : k \in 1..Len(chunks)}

(* C25: in chunked mode every accepted chunk is in exactly one transcription
   request: no two requests hold the same chunk, and a chunk leaves the
   buffer only in a request (a buffer dropped for being under the minimum
   size aside), also when chunks arrive while a flush awaits the gateway. *)
C25_EachChunkInOneRequest ==
    [][mode = "chunked"
       => /\ \A i \in 1..Len(sttLog'), j \in 1..Len(sttLog') :
                i # j => ChunkIds(sttLog'[i].chunks) \cap
                         ChunkIds(sttLog'[j].chunks) = {}
          /\ \A c \in clients :
                tooSmall' = tooSmall
                => \A id \in ChunkIds(audioChunks[c]) \ ChunkIds(audioChunks'[c]) :
                      \E i \in 1..Len(sttLog') : id \in ChunkIds(sttLog'[i].chunks)]_vars

TranscriptReplies == {"transcript-segment", "complete-transcript", "transcript-error"}

(* C26: a transcript reply carries the meeting id of the session in which its
   audio was received: the id the suspended handler was started with when the
   reply ends a handler, the current id when the handler replies at once. *)
C26_ReplyCarriesSessionMeeting ==
    [][\A c \in clients :
          (/\ Len(sent'[c]) = Len(sent[c]) + 1
           /\ sent'[c][Len(sent'[c])].type \in TranscriptReplies)
          => LET reply == sent'[c][Len(sent'[c])]
             IN  IF inflight'[c] = inflight[c]
                 THEN reply.meetingId = currentMeetingId[c]
                 ELSE \E k \in 1..Len(inflight[c]) :
                         /\ inflight'[c] = RemoveAt(inflight[c], k)
                         /\ reply.meetingId = inflight[c][k].meetingId]_vars

(* the step sends connection c exactly one message, of the given type *)
OneReply(c, type) ==
    /\ Len(sent'[c]) = Len(sent[c]) + 1
    /\ SubSeq(sent'[c], 1, Len(sent[c])) = sent[c]
    /\ sent'[c][Len(sent'[c])].type = type

(* C27: a complete-audio message received in a session gets exactly one
   reply: transcript-error at once for a recording of at most 1000 bytes;
   otherwise the handler awaits and its one reply is complete-transcript if
   the transcription had text and the segment was stored, transcript-error if
   it had none or storing failed.  No handler ends without its reply, every
   awaiting handler ends, and a complete-transcript is sent only for a
   meeting that has a segment. *)
C27_OneReplyPerRecording ==
    /\ [][\A c \in clients :
             /\ \A mid \in MeetingIds, len \in AudioSizes("full") :
                   (WsCompleteAudio(c, mid, len) /\ currentMeetingId[c] # NoMeeting)
                   => IF len <= 1000
                      THEN OneReply(c, "transcript-error") /\ inflight'[c] = inflight[c]
                      ELSE sent'[c] = sent[c] /\ Len(inflight'[c]) = Len(inflight[c]) + 1
             /\ \A k \in 1..Len(inflight[c]) :
                   (mode = "full" /\ inflight'[c] = RemoveAt(inflight[c], k))
                   => LET t == inflight[c][k]
                      IN  IF t.pc = "sum" \/ (sttLog'[t.req].speech /\ Exists(t.meetingId))
                          THEN /\ OneReply(c, "complete-transcript")
                               /\ transcript'[t.meetingId] # << >>
                          ELSE /\ OneReply(c, "transcript-error")
                               /\ transcript' = transcript
             /\ (mode = "full" /\ Len(inflight'[c]) >= Len(inflight[c])
                 /\ \A mid \in MeetingIds, len \in AudioSizes("full") :
                       ~WsCompleteAudio(c, mid, len))
                => \/ sent'[c] = sent[c]
                   \/ sent'[c][Len(sent'[c])].type \notin TranscriptReplies]_vars
    /\ \A c \in Conns : (inflight[c] # << >>) ~> (inflight[c] = << >>)

(* C27 happens: one recording of a session was too short and one was
   transcribed, stored and summarised; each got its reply *)
C27_ErrorThenTranscript ==
    \E c \in clients :
        /\ mode = "full"
        /\ Len(sent[c]) = 3
        /\ sent[c][2].type = "transcript-error"
        /\ sent[c][3].type = "complete-transcript"
        /\ inflight[c] = << >>
        /\ transcript[sent[c][3].meetingId] # << >>

(* C30: a meeting that is completed stays completed in every step: session
   messages, audio processing, summary generation and further stops never
   set its status back to 'recording' or 'scheduled'. *)
C30_CompletedStaysCompleted ==
    [][\A m \in MeetingIds : Completed(m) => Completed(m)']_vars

(* C30 happens: a completed meeting has a segment, a summary of the
   Summarization Gateway and the title it suggested *)
C30_CompletedAndSummarised ==
    \E m \in MeetingIds :
        /\ Completed(m)
        /\ transcript[m] # << >>
        /\ summaries[m] # << >>
        /\ meetings[m].title = "Sprint review"

(* C28: after disconnect() was called, no reconnection is attempted: no step
   schedules a reconnect timer, runs one or creates a socket. *)
C28_NoReconnectAfterDisconnect ==
    [][lifecycle = "unmounted"
       => /\ reconnectTimers' = reconnectTimers
          /\ Len(sockets') = Len(sockets)]_vars

(* C29: at most reconnectAttempts (3) reconnection attempts are made in a
   row without a socket opening in between; every open resets the counter to
   0; and once the limit is reached and the last attempt has failed, the hook
   stays Disconnected and creates no socket. *)
C29_AtMostThreeAttempts ==
    [][/\ attempts' <= 3
       /\ reconnectCount' <= 3
       /\ \A i \in 1..Len(sockets) :
             (sockets[i] # "open" /\ sockets'[i] = "open") => reconnectCount' = 0
       /\ (/\ attempts = 3
           /\ \A i \in 1..Len(sockets) : sockets[i] = "closed")
          => /\ connectionStatus = "Disconnected"
             /\ connectionStatus' = "Disconnected"
             /\ sockets' = sockets]_vars

(* C29 happens: three attempts in a row failed, the counter is at the limit
   and no timer is pending *)
C29_GaveUpAfterThree ==
    /\ attempts = 3
    /\ reconnectCount = 3
    /\ reconnectTimers = {}
    /\ Len(sockets) = 4
    /\ \A i \in 1..Len(sockets) : sockets[i] = "closed"
    /\ connectionStatus = "Disconnected"

----------------------------------------------------------------------------
(* the server takes a complete-audio message of the page *)
TakesCompleteAudio ==
    /\ inputs < Len(outbox)
    /\ inputs' = inputs + 1
    /\ outbox[inputs + 1].type = "complete-audio"

(* the page sends a stop-meeting message *)
SendsStopMeeting ==
    /\ Len(outbox') = Len(outbox) + 1
    /\ outbox'[Len(outbox')].type = "stop-meeting"

(* the page handles a complete-transcript or transcript-error message *)
HandlesTranscriptReply ==
    \E c \in Conns :
        /\ seen'[c] = seen[c] + 1
        /\ sent[c][seen'[c]].type \in {"complete-transcript", "transcript-error"}

(* C24: in the full-conversation revision the page sends stop-meeting only
   when it handles a complete-transcript or transcript-error message, and
   every complete-audio message the server takes finds the session of its
   connection Active. *)
C24_CompleteAudioFindsSessionActive ==
    [][/\ SendsStopMeeting => HandlesTranscriptReply
       /\ TakesCompleteAudio =>
              currentMeetingId[outbox[inputs + 1].conn] # NoMeeting]_vars

(* C24, its first half alone: stop-meeting is sent only on a transcript reply *)
C24_StopMeetingOnlyAfterReply ==
    [][SendsStopMeeting => HandlesTranscriptReply]_vars

(* C24, on the connection the session was started on: a complete-audio
   message sent on the socket that carried start-meeting finds it Active *)
C24_ActiveOnTheConnectionOfTheSession ==
    [][(TakesCompleteAudio
        /\ \E k \in 1..inputs : /\ outbox[k].type = "start-meeting"
                                /\ outbox[k].conn = outbox[inputs + 1].conn)
          => currentMeetingId[outbox[inputs + 1].conn] # NoMeeting]_vars

====
